---- MODULE Spec2Model ----
(***************************************************************************)
(* Model of src/Tracing.py: FilteringSpanProcessor (a span processor that  *)
(* forwards completed spans to a wrapped exporter when they pass a set of  *)
(* optional filter criteria) and setup_azure_ai_observability (which       *)
(* splices the default Azure Monitor processors out of the tracer          *)
(* provider's processor list and appends two filtering processors).        *)
(***************************************************************************)
EXTENDS Integers, Sequences, FiniteSets, TLC

VARIABLES
    filter_criteria,   \* self.filter_criteria, shared by both processors
    shutdowns,         \* per exporter: number of shutdown() calls received
    last,              \* the latest call made on a processor and what it did
    pc,                \* position inside setup_azure_ai_observability
    processors,        \* tracer_provider._active_span_processor._span_processors
    existing_processors, \* the copy the removal loop iterates over
    idx,               \* position of the removal loop in existing_processors
    initial,           \* history: processors when setup was entered
    before             \* history: processors when the removal loop started

vars == <<filter_criteria, shutdowns, last, pc, processors,
          existing_processors, idx, initial, before>>

filterVars == <<filter_criteria, shutdowns, last>>
setupVars == <<pc, processors, existing_processors, idx, initial, before>>

----------------------------------------------------------------------------
(* Bounds *)

\* Shutdown calls an exporter receives before the model stops issuing them.
MaxShutdowns == 2
\* Length of the processor list when setup is entered.
MaxPre == 2
\* Number of processors setup_observability registers.
MaxAdded == 2

----------------------------------------------------------------------------
(* Values *)

NS_PER_MS == 1000000
DEFAULT_TIMEOUT_MILLIS == 30000

\* Python's None, as returned by dict.get for a missing key.
None == "None"

OperationKey == "gen_ai.operation.name"

\* Span names are strings, modelled as sequences of characters.
Chat == <<"c", "h", "a", "t">>
ChatCompletion == <<"c", "h", "a", "t", "-", "c", "o", "m", "p", "l">>
ExecuteTool == <<"e", "x", "e", "c", "_", "t", "o", "o", "l">>

SpanNames == {ChatCompletion, ExecuteTool}
SpanKinds == {"INTERNAL", "CLIENT"}
Operations == {"chat", "debug_ping"}
StartTimes == {1000}
\* 99 ms, one nanosecond short of 100 ms, exactly 100 ms
Durations == {99 * NS_PER_MS, 100 * NS_PER_MS - 1, 100 * NS_PER_MS}

NoAttributes == [k \in {} |-> None]
AttributeMaps == {NoAttributes} \cup {[k \in {OperationKey} |-> o] : o \in Operations}

\* Completed spans: end_time >= start_time.
Spans == {[name |-> n, kind |-> k, start_time |-> s, end_time |-> s + d, attributes |-> a] :
            n \in SpanNames, k \in SpanKinds, s \in StartTimes, d \in Durations,
            a \in AttributeMaps}

\* A criterion is an optional entry of the dict: {} when the key is absent,
\* {v} when the key maps to v.
Absent == {}
Present(v) == {v}
HasKey(opt) == opt # {}
Value(opt) == CHOOSE v \in opt : TRUE

PredicateConfigs ==
    [include_names      : {Absent, Present({}), Present({Chat})},
     operation_names    : {Absent, Present({}), Present({"chat"})},
     min_duration_ms    : {Absent, Present(0), Present(100)},
     exclude_operations : {Absent, Present({"debug_ping"})},
     exclude_span_kinds : {Absent, Present({"CLIENT"})},
     unknown_key        : {Absent}]

AllAbsent == [include_names |-> Absent, operation_names |-> Absent,
              min_duration_ms |-> Absent, exclude_operations |-> Absent,
              exclude_span_kinds |-> Absent, unknown_key |-> Absent]

\* The dicts the constructor is given; a few of them carry a key the
\* processor does not know.
Configs == PredicateConfigs
           \cup {[c EXCEPT !.unknown_key = Present("x")] :
                    c \in {AllAbsent,
                           [AllAbsent EXCEPT !.exclude_span_kinds = Present({"CLIENT"})],
                           [AllAbsent EXCEPT !.operation_names = Present({"chat"})]}}

Processors == {"azure", "console"}
\* self.exporter of each processor
exporter == [p \in Processors |->
                IF p = "azure" THEN "AzureMonitorTraceExporter" ELSE "ConsoleSpanExporter"]
Exporters == {exporter[p] : p \in Processors}

\* What a call on the wrapped exporter can do: return a value or raise.
Return(v) == [kind |-> "return", value |-> v]
Raise(e) == [kind |-> "raise", value |-> e]
ExportOutcomes == {Return("SUCCESS"), Return("FAILURE"), Raise("ExportError")}
ShutdownOutcomes == {Return(None), Raise("ShutdownError")}
FlushOutcomes == {Return("True"), Return("False"), Raise("FlushError")}
Timeouts == {DEFAULT_TIMEOUT_MILLIS}

\* One call made on a wrapped exporter, with what the exporter did.
Call(e, method, args, result) ==
    [exporter |-> e, method |-> method, args |-> args, result |-> result]

\* The dicts the lifecycle specification constructs the processors with: the
\* empty dict of setup_azure_ai_observability and its commented-out examples.
SampleConfigs ==
    {AllAbsent,
     [AllAbsent EXCEPT !.exclude_span_kinds = Present({"CLIENT"})],
     [AllAbsent EXCEPT !.operation_names = Present({"chat"})],
     [AllAbsent EXCEPT !.include_names = Present({Chat}),
                       !.min_duration_ms = Present(100),
                       !.exclude_operations = Present({"debug_ping"})]}

----------------------------------------------------------------------------
(* FilteringSpanProcessor *)

\* name in span.name
IsSubstring(name, s) ==
    \E i \in 1..(Len(s) + 1) :
        /\ i + Len(name) - 1 <= Len(s)
        /\ SubSeq(s, i, i + Len(name) - 1) = name

\* span.attributes.get(key)
AttrGet(attributes, key) ==
    IF key \in DOMAIN attributes THEN attributes[key] ELSE None

\* bool(self.filter_criteria.get(key)) for a collection and for a number
TruthyCollection(opt) == HasKey(opt) /\ Value(opt) # {}
TruthyNumber(opt) == HasKey(opt) /\ Value(opt) # 0

DropsByIncludeNames(fc, span) ==
    /\ TruthyCollection(fc.include_names)
    /\ ~ \E name \in Value(fc.include_names) : IsSubstring(name, span.name)

DropsByOperationNames(fc, span) ==
    /\ TruthyCollection(fc.operation_names)
    /\ AttrGet(span.attributes, OperationKey) \notin Value(fc.operation_names)

\* Mutant: the floor itself is dropped (<= for <).
DropsByMinDurationInclusive(fc, span) ==
    /\ TruthyNumber(fc.min_duration_ms)
    /\ (span.end_time - span.start_time) <= Value(fc.min_duration_ms) * NS_PER_MS

\* duration_ns / 1_000_000 < floor, on exact quotients
DropsByMinDuration(fc, span) ==
    /\ TruthyNumber(fc.min_duration_ms)
    /\ (span.end_time - span.start_time) < Value(fc.min_duration_ms) * NS_PER_MS

DropsByExcludeOperations(fc, span) ==
    /\ TruthyCollection(fc.exclude_operations)
    /\ AttrGet(span.attributes, OperationKey) \in Value(fc.exclude_operations)

\* Mutant: the membership test is inverted (not in for in).
DropsByExcludeSpanKindsInverted(fc, span) ==
    /\ TruthyCollection(fc.exclude_span_kinds)
    /\ span.kind \notin Value(fc.exclude_span_kinds)

DropsByExcludeSpanKinds(fc, span) ==
    /\ TruthyCollection(fc.exclude_span_kinds)
    /\ span.kind \in Value(fc.exclude_span_kinds)

\* The early returns of on_end, in order; TRUE when the export line is reached.
ReachesExport(fc, span) ==
    IF DropsByIncludeNames(fc, span) THEN FALSE
    ELSE IF DropsByOperationNames(fc, span) THEN FALSE
    ELSE IF DropsByMinDuration(fc, span) THEN FALSE
    ELSE IF DropsByExcludeOperations(fc, span) THEN FALSE
    ELSE IF DropsByExcludeSpanKinds(fc, span) THEN FALSE
    ELSE TRUE


Record(p, op, args, calls, outcome) ==
    [proc |-> p, op |-> op, args |-> args, calls |-> calls, outcome |-> outcome]

\* Mutant: a failed export is tried once more.
OnEndCallsRetrying(p, span, exported) ==
    IF ReachesExport(filter_criteria, span)
    THEN IF exported = Return("SUCCESS")
         THEN <<Call(exporter[p], "export", << <<span>> >>, exported)>>
         ELSE <<Call(exporter[p], "export", << <<span>> >>, exported),
                Call(exporter[p], "export", << <<span>> >>, exported)>>
    ELSE <<>>

\* Mutant: a processor that remembers its shutdown and goes quiet after it.
OnEndCallsUntilShutdown(p, span, exported) ==
    IF ReachesExport(filter_criteria, span) /\ shutdowns[exporter[p]] = 0
    THEN <<Call(exporter[p], "export", << <<span>> >>, exported)>>
    ELSE <<>>

\* The calls on_end makes on the exporter: export([span]) when no criterion
\* returned early, nothing otherwise.
OnEndCalls(p, span, exported) ==
    IF ReachesExport(filter_criteria, span)
    THEN <<Call(exporter[p], "export", << <<span>> >>, exported)>>
    ELSE <<>>

\* Mutant: export wrapped in try/except, as a processor that logs and goes on.
OnEndOutcomeSwallowing(calls) == Return(None)

\* on_end has no return statement and no try: it returns None unless the
\* export call raised.
OnEndOutcome(calls) ==
    IF calls # <<>> /\ calls[Len(calls)].result.kind = "raise"
    THEN calls[Len(calls)].result
    ELSE Return(None)

\* on_start does nothing with its arguments.
on_start(p, span) ==
    /\ last' = Record(p, "on_start", <<>>, <<>>, Return(None))
    /\ UNCHANGED <<filter_criteria, shutdowns>>
    /\ UNCHANGED setupVars

on_end(p, span, exported) ==
    /\ last' = Record(p, "on_end", <<span>>, OnEndCalls(p, span, exported),
                      OnEndOutcome(OnEndCalls(p, span, exported)))
    /\ UNCHANGED <<filter_criteria, shutdowns>>
    /\ UNCHANGED setupVars

\* The calls shutdown makes on the exporter.
ShutdownCalls(p, result) == <<Call(exporter[p], "shutdown", <<>>, result)>>

\* shutdown has no return statement: None unless exporter.shutdown raised.
ShutdownOutcome(calls) ==
    IF calls # <<>> /\ calls[Len(calls)].result.kind = "raise"
    THEN calls[Len(calls)].result
    ELSE Return(None)

shutdown(p, result) ==
    /\ shutdowns[exporter[p]] < MaxShutdowns
    /\ shutdowns' = [shutdowns EXCEPT ![exporter[p]] = @ + Len(ShutdownCalls(p, result))]
    /\ last' = Record(p, "shutdown", <<>>, ShutdownCalls(p, result),
                      ShutdownOutcome(ShutdownCalls(p, result)))
    /\ UNCHANGED filter_criteria
    /\ UNCHANGED setupVars

\* return self.exporter.force_flush(timeout_millis)
ForceFlushOutcome(result) == result

force_flush(p, timeout_millis, result) ==
    /\ last' = Record(p, "force_flush", <<timeout_millis>>,
                      <<Call(exporter[p], "force_flush", <<timeout_millis>>, result)>>,
                      ForceFlushOutcome(result))
    /\ UNCHANGED <<filter_criteria, shutdowns>>
    /\ UNCHANGED setupVars

\* State after __init__, before any call.
NoCall == Record("azure", "__init__", <<>>, <<>>, Return(None))

----------------------------------------------------------------------------
(* setup_azure_ai_observability *)

AzureExporterClass == "AzureMonitorTraceExporter"

\* A registered processor object: its identity, its class and the exporter
\* class held by each of its attributes.
Processor(id, cls, attrs) == [id |-> id, cls |-> cls, attrs |-> attrs]
NoAttrs == [a \in {} |-> AzureExporterClass]
Holding(attr, cls) == [a \in {attr} |-> cls]

\* Processors the provider can hold before the removal loop: two default
\* Azure Monitor processors, one exporting elsewhere, one without _exporter.
Pool ==
    {Processor("b1", "BatchSpanProcessor", Holding("_exporter", AzureExporterClass)),
     Processor("b2", "BatchSpanProcessor", Holding("_exporter", AzureExporterClass)),
     Processor("b3", "BatchSpanProcessor", Holding("_exporter", "OTLPSpanExporter")),
     Processor("p4", "SpanProcessor", NoAttrs)}

azure_filtering_processor ==
    Processor("azure", "FilteringSpanProcessor", Holding("exporter", exporter["azure"]))
console_filtering_processor ==
    Processor("console", "FilteringSpanProcessor", Holding("exporter", exporter["console"]))

SeqsUpTo(S, n) == UNION {[1..k -> S] : k \in 0..n}

\* Mutant: the isinstance test is forgotten.
IsDefaultAzureProcessorAnyExporter(processor) ==
    "_exporter" \in DOMAIN processor.attrs

\* hasattr(processor, '_exporter') and isinstance(processor._exporter, AzureMonitorTraceExporter)
IsDefaultAzureProcessor(processor) ==
    /\ "_exporter" \in DOMAIN processor.attrs
    /\ processor.attrs["_exporter"] = AzureExporterClass

\* list.remove(x): drops the first item equal to x.
FirstIndex(list, x) == CHOOSE i \in 1..Len(list) :
                          list[i] = x /\ \A j \in 1..(i - 1) : list[j] # x
ListRemove(list, x) ==
    SubSeq(list, 1, FirstIndex(list, x) - 1)
        \o SubSeq(list, FirstIndex(list, x) + 1, Len(list))

\* filter_criteria of setup_azure_ai_observability: every entry is commented out.
SetupFilterCriteria == AllAbsent

\* await project_client.telemetry.get_application_insights_connection_string()
GetConnectionString(outcome) ==
    /\ pc = "start"
    /\ pc' = CASE outcome = "ok" -> "have_conn_string"
               [] outcome = "ResourceNotFoundError" -> "returned"
               [] OTHER -> "raised"
    /\ UNCHANGED <<processors, existing_processors, idx, initial, before>>
    /\ UNCHANGED filterVars

\* setup_observability registers processors; then the provider's list is copied.
SetupObservability(added) ==
    /\ pc = "have_conn_string"
    /\ processors' = processors \o added
    /\ existing_processors' = processors'
    /\ before' = processors'
    /\ idx' = 1
    /\ pc' = "loop"
    /\ UNCHANGED initial
    /\ UNCHANGED filterVars

\* One iteration of: for processor in existing_processors
RemoveStep ==
    /\ pc = "loop"
    /\ idx <= Len(existing_processors)
    /\ IF IsDefaultAzureProcessor(existing_processors[idx])
       THEN IF \E i \in 1..Len(processors) : processors[i] = existing_processors[idx]
            THEN /\ processors' = ListRemove(processors, existing_processors[idx])
                 /\ idx' = idx + 1
                 /\ pc' = pc
            ELSE \* list.remove raises ValueError
                 /\ pc' = "raised"
                 /\ UNCHANGED <<processors, idx>>
       ELSE /\ idx' = idx + 1
            /\ UNCHANGED <<processors, pc>>
    /\ UNCHANGED <<existing_processors, initial, before>>
    /\ UNCHANGED filterVars

\* add_span_processor(azure_filtering_processor); add_span_processor(console_filtering_processor)
AddedProcessors == <<azure_filtering_processor, console_filtering_processor>>

AddFilteringProcessors ==
    /\ pc = "loop"
    /\ idx > Len(existing_processors)
    /\ processors' = processors \o AddedProcessors
    /\ pc' = "done"
    /\ UNCHANGED <<existing_processors, idx, initial, before>>
    /\ UNCHANGED filterVars

----------------------------------------------------------------------------
(* Specifications *)

SetupIdle ==
    /\ pc = "idle"
    /\ processors = <<>>
    /\ existing_processors = <<>>
    /\ idx = 0
    /\ initial = <<>>
    /\ before = <<>>

ProcessorsIdle ==
    /\ shutdowns = [e \in Exporters |-> 0]
    /\ last = NoCall

\* The life of the two processors setup registers, for a few criteria dicts.
Init ==
    /\ filter_criteria \in SampleConfigs
    /\ ProcessorsIdle
    /\ SetupIdle

Next ==
    \/ \E p \in Processors, span \in Spans : on_start(p, span)
    \/ \E p \in Processors, span \in Spans, r \in ExportOutcomes : on_end(p, span, r)
    \/ \E p \in Processors, r \in ShutdownOutcomes : shutdown(p, r)
    \/ \E p \in Processors, t \in Timeouts, r \in FlushOutcomes : force_flush(p, t, r)

Spec == Init /\ [][Next]_vars

\* on_end as a function of the criteria and the span, over every criteria dict.
InitFilter ==
    /\ filter_criteria \in Configs
    /\ ProcessorsIdle
    /\ SetupIdle

NextFilter ==
    \E span \in Spans, r \in ExportOutcomes : on_end("azure", span, r)

SpecFilter == InitFilter /\ [][NextFilter]_vars

\* One run of setup_azure_ai_observability over a provider that may already
\* hold processors.
InitSetup ==
    /\ filter_criteria = SetupFilterCriteria
    /\ ProcessorsIdle
    /\ pc = "start"
    /\ processors \in SeqsUpTo(Pool, MaxPre)
    /\ initial = processors
    /\ existing_processors = <<>>
    /\ idx = 0
    /\ before = <<>>

NextSetup ==
    \/ \E outcome \in {"ok", "ResourceNotFoundError", "HttpResponseError"} :
          GetConnectionString(outcome)
    \/ \E added \in SeqsUpTo(Pool, MaxAdded) : SetupObservability(added)
    \/ RemoveStep
    \/ AddFilteringProcessors

SpecSetup == InitSetup /\ [][NextSetup]_vars

----------------------------------------------------------------------------
(* Properties *)

\* The call under examination and what it did.
LastSpan == last.args[1]
Exported(r) == \E i \in 1..Len(r.calls) : r.calls[i].method = "export"
OperationOf(span) == AttrGet(span.attributes, OperationKey)
DurationNs(span) == span.end_time - span.start_time
Without(fc, key) == [fc EXCEPT ![key] = Absent]

\* The criteria as the specification words them: a criterion applies when its
\* key is present (include_names: present and non-empty).
IncludeNamesPasses(fc, span) ==
    (HasKey(fc.include_names) /\ Value(fc.include_names) # {})
        => \E name \in Value(fc.include_names) : IsSubstring(name, span.name)
OperationNamesPasses(fc, span) ==
    HasKey(fc.operation_names)
        => (OperationOf(span) # None /\ OperationOf(span) \in Value(fc.operation_names))
MinDurationPasses(fc, span) ==
    HasKey(fc.min_duration_ms)
        => DurationNs(span) >= Value(fc.min_duration_ms) * NS_PER_MS
ExcludeOperationsPasses(fc, span) ==
    HasKey(fc.exclude_operations)
        => ~ (OperationOf(span) # None /\ OperationOf(span) \in Value(fc.exclude_operations))
ExcludeSpanKindsPasses(fc, span) ==
    HasKey(fc.exclude_span_kinds) => span.kind \notin Value(fc.exclude_span_kinds)
AllConfiguredPass(fc, span) ==
    /\ IncludeNamesPasses(fc, span)
    /\ OperationNamesPasses(fc, span)
    /\ MinDurationPasses(fc, span)
    /\ ExcludeOperationsPasses(fc, span)
    /\ ExcludeSpanKindsPasses(fc, span)

\* C1: on_end(S) forwards S to the exporter if and only if every criterion
\* configured in the dict passes on S; criteria that are not set, and unknown
\* keys, never cause a drop.
C1_ForwardsIffAllConfiguredPass ==
    last.op = "on_end"
        => (Exported(last) <=> AllConfiguredPass(filter_criteria, LastSpan))

\* C2: an on_end(S) makes no call or exactly one call on its exporter, and
\* that call is export([S]) with the span it was given; on_start, shutdown and
\* force_flush make no export call.
C2_AtMostOneExportOfTheSpan ==
    /\ last.op = "on_end"
        => \/ last.calls = <<>>
           \/ /\ Len(last.calls) = 1
              /\ last.calls[1].method = "export"
              /\ last.calls[1].exporter = exporter[last.proc]
              /\ last.calls[1].args = << <<LastSpan>> >>
    /\ last.op \in {"on_start", "shutdown", "force_flush"} => ~ Exported(last)

\* C2 witness: an on_end that made its one export call.
C2_Witness ==
    /\ last.op = "on_end"
    /\ Len(last.calls) = 1
    /\ last.calls[1].args[1] = <<LastSpan>>

IsFailure(result) ==
    \/ result.kind = "raise"
    \/ result = Return("FAILURE")
    \/ result = Return("False")

\* C3 as stated: whatever failure the exporter's export or flush call produces,
\* raised or returned, is what on_end or force_flush hands to its caller, and
\* the call is made once.
C3_FailureReachesCaller ==
    last.op \in {"on_end", "force_flush"}
        => /\ Len(last.calls) <= 1
           /\ \A i \in 1..Len(last.calls) :
                 IsFailure(last.calls[i].result) => last.outcome = last.calls[i].result

\* C3 amended: an error raised by export or flush reaches the caller as it
\* is, force_flush returns what flush returned (a failure included), on_end
\* returns None whatever export returned, and the call is made once.
C3_RaisedErrorsAndFlushResultReachCaller ==
    /\ last.op \in {"on_end", "force_flush"}
        => /\ Len(last.calls) <= 1
           /\ \A i \in 1..Len(last.calls) :
                 last.calls[i].result.kind = "raise" => last.outcome = last.calls[i].result
    /\ last.op = "force_flush"
        => Len(last.calls) = 1 /\ last.outcome = last.calls[1].result
    /\ last.op = "on_end"
        => \A i \in 1..Len(last.calls) :
              last.calls[i].result.kind = "return" => last.outcome = Return(None)

\* C3 witness: an on_end whose export call raised, the error reaching the caller.
C3_Witness ==
    /\ last.op = "on_end"
    /\ Exported(last)
    /\ last.outcome = Raise("ExportError")

\* C4: whenever the operation_names key is present, whatever set it holds, a
\* span whose operation attribute is absent or outside the set is dropped.
C4_OperationNamesDropsNonMembers ==
    (last.op = "on_end" /\ HasKey(filter_criteria.operation_names))
        => ((OperationOf(LastSpan) = None
                \/ OperationOf(LastSpan) \notin Value(filter_criteria.operation_names))
            => ~ Exported(last))

\* C5: for a span without the operation attribute, on_end raises nothing of
\* its own, drops the span when operation_names is configured, and
\* exclude_operations does not make it drop the span.
C5_AbsentOperationIsNonMatch ==
    (last.op = "on_end" /\ OperationOf(LastSpan) = None)
        => /\ last.outcome.kind = "raise" => Exported(last)
           /\ HasKey(filter_criteria.operation_names) => ~ Exported(last)
           /\ Exported(last)
                <=> ReachesExport(Without(filter_criteria, "exclude_operations"), LastSpan)

C7_ExcludeClientKind ==
    (last.op = "on_end" /\ filter_criteria.exclude_span_kinds = Present({"CLIENT"}))
        => IF LastSpan.kind = "CLIENT"
           THEN ~ Exported(last)
           ELSE Exported(last)
                  <=> ReachesExport(Without(filter_criteria, "exclude_span_kinds"), LastSpan)

\* C7 witness: a CLIENT span every other criterion lets through is dropped.
C7_Witness ==
    /\ last.op = "on_end"
    /\ filter_criteria.exclude_span_kinds = Present({"CLIENT"})
    /\ LastSpan.kind = "CLIENT"
    /\ ReachesExport(Without(filter_criteria, "exclude_span_kinds"), LastSpan)
    /\ ~ Exported(last)

\* C8: shutdown is idempotent: however often shutdown() is called on a
\* processor, its exporter observes what it observes after one call, a single
\* shutdown.
C8_ShutdownObservedOnce ==
    \A p \in Processors : shutdowns[exporter[p]] <= 1

\* C9: when setup completes, no processor whose _exporter is an
\* AzureMonitorTraceExporter is registered, the other processors registered
\* before the removal are kept in order, and the Azure Monitor filtering
\* processor then the console one have been appended; when the connection
\* string is not found the list is as it was.
ExportsToAzureMonitorDirectly(processor) ==
    /\ "_exporter" \in DOMAIN processor.attrs
    /\ processor.attrs["_exporter"] = AzureExporterClass
KeptProcessor(processor) == ~ ExportsToAzureMonitorDirectly(processor)

C9_DefaultAzureProcessorsReplaced ==
    /\ pc = "done"
        => /\ \A i \in 1..Len(processors) :
                 ~ ExportsToAzureMonitorDirectly(processors[i])
           /\ processors = SelectSeq(before, KeptProcessor)
                              \o <<azure_filtering_processor, console_filtering_processor>>
    /\ pc = "returned" => processors = initial

\* C9 witness: setup completed over a list holding two default Azure Monitor
\* processors next to each other and a processor that is kept.
C9_Witness ==
    /\ pc = "done"
    /\ \E i \in 1..(Len(before) - 1) :
          /\ ExportsToAzureMonitorDirectly(before[i])
          /\ ExportsToAzureMonitorDirectly(before[i + 1])
    /\ Len(processors) > 2

\* C10: the decision of on_end depends on the criteria and the span alone: in
\* any sequence of calls, after shutdown included, on_end(S) calls export([S])
\* exactly when S gets past the criteria, and two on_end calls for the same
\* span, on either processor, decide alike.
C10_DecisionIgnoresHistory ==
    [][last'.op = "on_end"
         => /\ Exported(last') <=> ReachesExport(filter_criteria', last'.args[1])
            /\ (last.op = "on_end" /\ last.args[1] = last'.args[1])
                  => (Exported(last) <=> Exported(last'))]_vars

\* C10 witness: the console processor exports a span after its shutdown, the
\* Azure Monitor processor not having been shut down.
C10_Witness ==
    /\ last.op = "on_end"
    /\ last.proc = "console"
    /\ shutdowns[exporter["console"]] >= 1
    /\ shutdowns[exporter["azure"]] = 0
    /\ Exported(last)

====
